---- MODULE Spec2Model ----
(***************************************************************************)
(* Pile Foundation Designer (src/foundation_app.py).                       *)
(*                                                                         *)
(* Real quantities are modelled as exact scaled integers.  The scale of    *)
(* every quantity is fixed and stated where the quantity is defined:       *)
(*   diameter       in units of 0.05 m   (0.6 m   is 12)                   *)
(*   safety factor  in units of 0.5      (2.5     is 5)                    *)
(*   thickness      in units of 0.5 m    (5.0 m   is 10)                   *)
(*   length         in units of 0.5 m in the comparison tab                *)
(*   spacing        in units of 0.1 m    (2.5 m   is 25)                   *)
(*   load           in kN (the widget is an integer input)                 *)
(*   every value the code passes through round(x, 2) in hundredths         *)
(* The literal 3.14 is the fraction 157/50.  round(x, 2) is modelled on    *)
(* the exact quotient (round half to even), int(x) as truncation towards   *)
(* zero.  On an exact tie the code rounds the double nearest to the        *)
(* quotient, which lies on either side of it; the sets of input values     *)
(* below are chosen so that no rounded quantity of the model is a tie, and *)
(* on them the definitions agree with the Python functions value by value. *)
(***************************************************************************)
EXTENDS Integers, Sequences, FiniteSets, TLC

----------------------------------------------------------------------------
(* Arithmetic of the Python built-ins the code uses.                       *)

\* floor(a / b), b # 0
FloorDiv(a, b) ==
    IF b > 0 THEN a \div b ELSE (0 - a) \div (0 - b)

\* math.ceil(a / b), b # 0
CeilDiv(a, b) ==
    0 - FloorDiv(0 - a, b)

\* int(a / b): truncation towards zero, b # 0
IntTrunc(a, b) ==
    IF (a >= 0) = (b > 0) THEN FloorDiv(a, b) ELSE CeilDiv(a, b)

\* round(a / b) to the nearest integer, ties to even, b # 0
Round(a, b) ==
    LET n == IF b > 0 THEN a ELSE 0 - a
        d == IF b > 0 THEN b ELSE 0 - b
        q == n \div d
        r == n - q * d
    IN  IF 2 * r < d THEN q
        ELSE IF 2 * r > d THEN q + 1
        ELSE IF q % 2 = 0 THEN q ELSE q + 1

\* math.ceil(math.sqrt(n)), n >= 0
CeilSqrt(n) ==
    CHOOSE r \in 0..n : r * r >= n /\ (r = 0 \/ (r - 1) * (r - 1) < n)

Min(a, b) == IF a <= b THEN a ELSE b

RECURSIVE SumSeq(_)
SumSeq(s) ==
    IF s = <<>> THEN 0 ELSE Head(s) + SumSeq(Tail(s))

\* the outcome of a call that returned v / that raised exception e
Ok(v) == [status |-> "ok", value |-> v]
Raise(e) == [status |-> e]
IsOk(r) == r.status = "ok"

\* a call that has not returned yet
Pending == [status |-> "pending"]
Returned(c) == c.result.status # "pending"

----------------------------------------------------------------------------
(* The functions of the calculation engine.                                *)

\* cohesion in kPa of each soil type
soil_types ==
    [t \in {"Soft Clay", "Medium Clay", "Stiff Clay", "Loose Sand", "Dense Sand"} |->
        CASE t = "Soft Clay" -> 25
          [] t = "Medium Clay" -> 50
          [] t = "Stiff Clay" -> 75
          [] t = "Loose Sand" -> 0
          [] t = "Dense Sand" -> 0]

\* suggest_layout with the row count taken one past the root of n:
\* math.floor(math.sqrt(n)) + 1, which is math.ceil(math.sqrt(n + 1))
suggest_layout_rows_past_root(n_piles) ==
    IF n_piles < 0 THEN Raise("ValueError")
    ELSE LET rows == CeilSqrt(n_piles + 1)
         IN  Ok([rows |-> rows, cols |-> CeilDiv(n_piles, rows)])

\* suggest_layout with a spare column: n // rows + 1
suggest_layout_spare_column(n_piles) ==
    IF n_piles < 0 THEN Raise("ValueError")
    ELSE LET rows == CeilSqrt(n_piles)
         IN  IF rows = 0 THEN Raise("ZeroDivisionError")
             ELSE Ok([rows |-> rows, cols |-> FloorDiv(n_piles, rows) + 1])

\* suggest_layout with the column count rounded down: n // rows
suggest_layout_cols_floor(n_piles) ==
    IF n_piles < 0 THEN Raise("ValueError")
    ELSE LET rows == CeilSqrt(n_piles)
         IN  IF rows = 0 THEN Raise("ZeroDivisionError")
             ELSE Ok([rows |-> rows, cols |-> FloorDiv(n_piles, rows)])

\* rows = ceil(sqrt(n)); cols = ceil(n / rows).  n <= 0 raises:
\* math.sqrt of a negative number is a ValueError, n = 0 divides by rows = 0.
suggest_layout(n_piles) ==
    IF n_piles < 0 THEN Raise("ValueError")
    ELSE LET rows == CeilSqrt(n_piles)
         IN  IF rows = 0 THEN Raise("ZeroDivisionError")
             ELSE Ok([rows |-> rows, cols |-> CeilDiv(n_piles, rows)])

\* round(3.14 * (diameter / 2) ** 2 * length, 2), in hundredths of m3;
\* length in hundredths of m
calculate_concrete_volume(diameter, length) ==
    Round(157 * diameter * diameter * length, 80000)

\* calculate_capacity with the end bearing taken from the first layer:
\* layers[0]["cohesion"] in place of layers[-1]["cohesion"]
calculate_capacity_first_layer_end(diameter, safety_factor, layers) ==
    LET perimeter == 157 * diameter
        length == SumSeq([i \in 1..Len(layers) |-> layers[i].thickness])
        skin == SumSeq([i \in 1..Len(layers) |->
                    layers[i].cohesion * perimeter * layers[i].thickness])
        base_area == 157 * diameter * diameter
    IN  IF layers = <<>> THEN Raise("IndexError")
        ELSE LET end == layers[1].cohesion * 9 * base_area
                 ultimate == 40 * skin + end
             IN  IF safety_factor = 0 THEN Raise("ZeroDivisionError")
                 ELSE Ok([allowable |-> Round(ultimate, 400 * safety_factor),
                          length |-> 50 * length,
                          perimeter |-> perimeter,
                          base_area |-> base_area,
                          skin |-> skin,
                          end |-> end,
                          ultimate |-> ultimate])

\* layers: sequence of [type, cohesion, thickness].
\* perimeter in 1/1000 m, base_area in 1/80000 m2, skin in 1/2000 kN,
\* end and ultimate in 1/80000 kN, allowable in hundredths of kN,
\* length in hundredths of m.
calculate_capacity(diameter, safety_factor, layers) ==
    LET perimeter == 157 * diameter
        length == SumSeq([i \in 1..Len(layers) |-> layers[i].thickness])
        skin == SumSeq([i \in 1..Len(layers) |->
                    layers[i].cohesion * perimeter * layers[i].thickness])
        base_area == 157 * diameter * diameter
    IN  IF layers = <<>> THEN Raise("IndexError")
        ELSE LET end == layers[Len(layers)].cohesion * 9 * base_area
                 ultimate == 40 * skin + end
             IN  IF safety_factor = 0 THEN Raise("ZeroDivisionError")
                 ELSE Ok([allowable |-> Round(ultimate, 400 * safety_factor),
                          length |-> 50 * length,
                          perimeter |-> perimeter,
                          base_area |-> base_area,
                          skin |-> skin,
                          end |-> end,
                          ultimate |-> ultimate])

\* piles_needed as a mathematical ceiling: math.ceil(total_load / capacity)
piles_needed_ceil(total_load, cap_num, cap_den) ==
    IF cap_num = 0 THEN Raise("ZeroDivisionError")
    ELSE Ok(CeilDiv(total_load * cap_den, cap_num))

\* piles_needed with the quotient inverted: int((capacity / total_load) + 1)
piles_needed_inverted(total_load, cap_num, cap_den) ==
    IF total_load = 0 THEN Raise("ZeroDivisionError")
    ELSE Ok(IntTrunc(cap_num + total_load * cap_den, total_load * cap_den))

\* int((total_load / capacity) + 1) for capacity = cap_num / cap_den,
\* cap_den > 0
piles_needed(total_load, cap_num, cap_den) ==
    IF cap_num = 0 THEN Raise("ZeroDivisionError")
    ELSE Ok(IntTrunc(total_load * cap_den + cap_num, cap_num))

\* calculate_group_efficiency multiplying by the spacing factor and without
\* the cap: round(rows * cols * (1 + 0.1 * spacing_ratio), 2)
calculate_group_efficiency_uncapped(rows, cols, spacing, diameter) ==
    IF diameter = 0 THEN Raise("ZeroDivisionError")
    ELSE Ok(Round(100 * rows * cols * (5 * diameter + spacing), 5 * diameter))

\* calculate_group_efficiency with the ratio inverted:
\* spacing_ratio = diameter / spacing, so 1 + 0.1 * spacing_ratio is
\* (20 * spacing + diameter) / (20 * spacing)
calculate_group_efficiency_inverted(rows, cols, spacing, diameter) ==
    IF spacing = 0 \/ 20 * spacing + diameter = 0 THEN Raise("ZeroDivisionError")
    ELSE Ok(Min(Round(100 * rows * cols * 20 * spacing, 20 * spacing + diameter),
                100 * rows * cols))

\* round(min(rows * cols / (1 + 0.1 * spacing / diameter), rows * cols), 2),
\* in hundredths.  1 + 0.1 * spacing / diameter = (5 * diameter + spacing)
\* / (5 * diameter) in the units of spacing and diameter.
calculate_group_efficiency(rows, cols, spacing, diameter) ==
    IF diameter = 0 \/ 5 * diameter + spacing = 0 THEN Raise("ZeroDivisionError")
    ELSE LET num == rows * cols * 5 * diameter
             den == 5 * diameter + spacing
             raw_below_cap == IF den > 0 THEN num <= rows * cols * den
                                         ELSE num >= rows * cols * den
         IN  Ok(IF raw_below_cap THEN Round(100 * num, den)
                                 ELSE 100 * rows * cols)

\* round(volume * cost_per_m3, 2) in hundredths of USD; volume in hundredths
\* of m3, cost_per_m3 in whole USD, so the product is exact
estimate_pile_cost(volume, cost_per_m3) ==
    volume * cost_per_m3

\* d in 0.05 m, l in 0.5 m, sf in 0.5, c in kPa, load in kN, cost_rate in USD.
\* allowable = (skin + base) / sf is the fraction ultimate / (40000 * sf),
\* not rounded before the pile count is taken from it.
pile_design_summary(d, l, sf, c, load, cost_rate) ==
    LET perimeter == 157 * d
        skin == c * perimeter * l
        base == c * 9 * (157 * d * d)
        ultimate == 40 * skin + base
    IN  IF sf = 0 THEN Raise("ZeroDivisionError")
        ELSE LET piles == IF sf > 0
                          THEN piles_needed(load, ultimate, 40000 * sf)
                          ELSE piles_needed(load, 0 - ultimate, 0 - 40000 * sf)
             IN  IF ~IsOk(piles) THEN piles
                 ELSE LET volume == calculate_concrete_volume(d, 50 * l)
                          total_cost == estimate_pile_cost(volume * piles.value, cost_rate)
                      IN  Ok([allowable |-> Round(ultimate, 400 * sf),
                              piles |-> piles.value,
                              volume |-> volume,
                              total_cost |-> total_cost])

----------------------------------------------------------------------------
(* The button handlers of the tabs, as functions of the widget values.     *)

\* tab1, "Calculate Pile Capacity": the record stored as "calculated"
tab1_calculate(diameter_, safety_factor_, total_load_, layers_, cost_rate_) ==
    LET cap == calculate_capacity(diameter_, safety_factor_, layers_)
    IN  IF ~IsOk(cap) THEN cap
        ELSE LET capacity == cap.value.allowable
                 total_depth == cap.value.length
                 pn == piles_needed(total_load_, capacity, 100)
             IN  IF ~IsOk(pn) THEN pn
                 ELSE LET volume_per_pile == calculate_concrete_volume(diameter_, total_depth)
                          total_volume == volume_per_pile * pn.value
                          total_cost == estimate_pile_cost(total_volume, cost_rate_)
                      IN  Ok([capacity |-> capacity,
                              pile_length |-> total_depth,
                              piles_needed |-> pn.value,
                              volume_per_pile |-> volume_per_pile,
                              total_volume |-> total_volume,
                              total_cost |-> total_cost,
                              layers |-> layers_,
                              diameter |-> diameter_,
                              safety_factor |-> safety_factor_,
                              total_load |-> total_load_])

\* tab2, "Show Pile Layout + Group Efficiency".  group_capacity is the
\* product capacity * efficiency in 1/10000 kN, of which the code displays
\* round(x, 2).
tab2_layout(diameter_, safety_factor_, total_load_, layers_, spacing_) ==
    LET cap == calculate_capacity(diameter_, safety_factor_, layers_)
    IN  IF ~IsOk(cap) THEN cap
        ELSE LET capacity == cap.value.allowable
                 pn == piles_needed(total_load_, capacity, 100)
             IN  IF ~IsOk(pn) THEN pn
                 ELSE LET grid == suggest_layout(pn.value)
                      IN  IF ~IsOk(grid) THEN grid
                          ELSE LET eff == calculate_group_efficiency(
                                              grid.value.rows, grid.value.cols,
                                              spacing_, diameter_)
                               IN  IF ~IsOk(eff) THEN eff
                                   ELSE Ok([capacity |-> capacity,
                                            piles_needed |-> pn.value,
                                            rows |-> grid.value.rows,
                                            cols |-> grid.value.cols,
                                            efficiency |-> eff.value,
                                            group_capacity |->
                                                capacity * eff.value])

\* tab4_compare with design B computed from the diameter of design A:
\* pile_design_summary(d1, l2, sf2, ...)
tab4_compare_shared_diameter(d1_, l1_, sf1_, d2_, l2_, sf2_, total_load_) ==
    LET load == total_load_
        cohesion == 50
        cost_rate == 120
        a == pile_design_summary(d1_, l1_, sf1_, cohesion, load, cost_rate)
        b == pile_design_summary(d1_, l2_, sf2_, cohesion, load, cost_rate)
    IN  IF ~IsOk(a) THEN a
        ELSE IF ~IsOk(b) THEN b
        ELSE Ok([A |-> a.value, B |-> b.value])

\* tab4, "Compare Designs": a is computed before b, the table needs both
tab4_compare(d1_, l1_, sf1_, d2_, l2_, sf2_, total_load_) ==
    LET load == total_load_
        cohesion == 50
        cost_rate == 120
        a == pile_design_summary(d1_, l1_, sf1_, cohesion, load, cost_rate)
        b == pile_design_summary(d2_, l2_, sf2_, cohesion, load, cost_rate)
    IN  IF ~IsOk(a) THEN a
        ELSE IF ~IsOk(b) THEN b
        ELSE Ok([A |-> a.value, B |-> b.value])

\* Q in kN, L in 0.5 m, diameter in 0.05 m, Es in 1000 kPa; the result
\* round(S * 1000, 2) in hundredths of mm.  S * 1000 = Q * L / (A * Es).
estimate_settlement(Q, L, diameter_, Es_) ==
    IF 157 * diameter_ * diameter_ * Es_ = 0 THEN Raise("ZeroDivisionError")
    ELSE Ok(Round(4000 * Q * L, 157 * diameter_ * diameter_ * Es_))

\* the fractions 0.2, 0.4, 0.6, 0.8, 1.0 of the reference load, in tenths
CurveFractions == << 2, 4, 6, 8, 10 >>

\* the points of a curve drawn at the loads q: the call of
\* estimate_settlement that raises ends the whole comprehension
CurvePoints(loads, L, diameter_, Es_) ==
    LET settlements == [i \in 1..Len(loads) |->
                            estimate_settlement(loads[i], L, diameter_, Es_)]
        failed == {i \in 1..Len(loads) : ~IsOk(settlements[i])}
    IN  IF failed # {}
        THEN settlements[CHOOSE i \in failed : \A j \in failed : i <= j]
        ELSE Ok([i \in 1..Len(loads) |->
                    [load |-> loads[i], settlement |-> settlements[i].value]])

\* load_settlement_curve drawn from no load upwards: the fractions
\* 0.0, 0.2, 0.4, 0.6, 0.8 of the reference load
load_settlement_curve_from_zero(Q, L, diameter_, Es_) ==
    CurvePoints([i \in 1..Len(CurveFractions) |->
                    (Q * (CurveFractions[i] - 2)) \div 10], L, diameter_, Es_)

\* loads = [Q * x for x in [0.2, 0.4, 0.6, 0.8, 1.0]] and the settlement of
\* each load.  The loads of the model are multiples of 5 kN, so every
\* product Q * x is a whole number of kN.
load_settlement_curve(Q, L, diameter_, Es_) ==
    CurvePoints([i \in 1..Len(CurveFractions) |->
                    (Q * CurveFractions[i]) \div 10], L, diameter_, Es_)

\* Quantities of volume and totals in hundredths; the pile count and the
\* lump sum are whole numbers.  The rebar row carries total_volume * 0.05 *
\* 7850 in 1/200 kg and its unit rate in hundredths of USD: the quantity
\* lies on a rounding tie for every odd total_volume, so the row is kept as
\* it is before the code's two round(x, 2).
generate_boq(piles, volume_per_pile, total_volume, concrete_rate, rebar_rate, labor_rate) ==
    << [Item |-> "Concrete", Qty |-> total_volume,
        Total |-> total_volume * concrete_rate],
       [Item |-> "Rebar (5%)", Qty |-> total_volume * 785,
        UnitRate |-> rebar_rate],
       [Item |-> "Pile Excavation", Qty |-> total_volume,
        Total |-> total_volume * 25],
       [Item |-> "Pile Installation", Qty |-> piles,
        Total |-> 100 * piles * labor_rate],
       [Item |-> "Mobilization & Setup", Qty |-> 1,
        Total |-> 100 * 1000] >>

\* tab5: the bill of quantities is rendered from the session alone
tab5_boq(sess) ==
    IF "boq_ready" \in DOMAIN sess /\ sess["boq_ready"]
    THEN << generate_boq(sess["piles"], sess["vol_per_pile"], sess["total_vol"],
                         120, 150, 50) >>
    ELSE << >>

----------------------------------------------------------------------------
(* Bounds and the values the widgets range over.                           *)

MaxLayers == 2
MaxPiles == 40
MaxGrid == 4
MaxSpacing == 45
MaxLoad == 12
MaxCapacity == 8

\* the soil types and thicknesses offered to a layer
SoilChoices == {"Soft Clay", "Loose Sand"}
ThicknessChoices == {10}
DiameterChoices == {0, 12}
SafetyFactorChoices == {0 - 5, 5}
LoadChoices == {1000, 1570}
EsChoices == {15, 30}

\* layer_count is a number_input with min_value = 1
LayerCounts == 1..MaxLayers

\* tab4 widgets of design A and of design B
CompareDiametersA == {0, 12}
CompareLengthsA == {30, 40}
CompareDiametersB == {0, 8, 9}
CompareLengthsB == {40, 50}
CompareSafetyFactors == {0, 3, 5}
CompareLoads == {1000, 1570, 6616}

----------------------------------------------------------------------------
(* The session: widget values, st.session_state and what the last script   *)
(* run displayed.                                                          *)

VARIABLES
    diameter, safety_factor, total_load, layers, Es,   \* tab1 and tab3 widgets
    show_curve,     \* the checkbox "Show Load vs. Settlement Curve" of tab3
    d1, l1, sf1, d2, l2, sf2,                          \* tab4 widgets
    session,        \* st.session_state: a function from the keys present
    calc_failed,    \* the last "Calculate Pile Capacity" run on the present
                    \* widget values raised
    out,            \* what the last script run displayed
    call            \* the last direct call of an engine function

widgets == <<diameter, safety_factor, total_load, layers, Es, show_curve>>
compare_widgets == <<d1, l1, sf1, d2, l2, sf2>>
vars == <<diameter, safety_factor, total_load, layers, Es, show_curve,
          d1, l1, sf1, d2, l2, sf2, session, calc_failed, out, call>>

\* the value of the "Cost per m3" widget
cost_rate == 120

\* the spacing widget lives inside the button block of tab2: it is created
\* with its default on the run of the click and is gone on the next run
spacing_default == 25

Layer(type, thickness) ==
    [type |-> type, cohesion |-> soil_types[type], thickness |-> thickness]

EmptySession == [k \in {} |-> 0]

NothingShown ==
    [click |-> "none", error |-> "none", calc |-> << >>, layout |-> << >>, settlement |-> << >>,
     curve |-> << >>, warning |-> FALSE, compare |-> << >>, boq |-> << >>]

\* the run a click on button b causes, before anything is rendered
Clicked(b) == [NothingShown EXCEPT !.click = b]

\* an exception ends the script run: nothing after it is rendered
Aborted(e, shown) == [shown EXCEPT !.error = e]

Init ==
    /\ diameter = 12
    /\ safety_factor = 5
    /\ total_load = 1000
    /\ layers = << Layer("Soft Clay", 10), Layer("Soft Clay", 10) >>
    /\ Es = 15
    /\ show_curve = FALSE
    /\ d1 = 12 /\ l1 = 40 /\ sf1 = 5
    /\ d2 = 9 /\ l2 = 50 /\ sf2 = 5
    /\ session = EmptySession
    /\ calc_failed = FALSE
    /\ out = NothingShown
    /\ call = [op |-> "none", result |-> Pending]

----------------------------------------------------------------------------
(* Script runs.  Every widget change and every button click reruns the     *)
(* script from top to bottom: tab1, tab2, tab3, tab4, tab5.  A button is   *)
(* True only in the run its click causes.                                  *)

\* tab3, below the button: with the checkbox ticked the curve is drawn from
\* the four values stored in the session, or the warning is shown when "Q"
\* or "L" is not stored
tab3_curve(show, sess, shown) ==
    IF ~show THEN shown
    ELSE IF "Q" \in DOMAIN sess /\ "L" \in DOMAIN sess
    THEN LET c == load_settlement_curve(sess["Q"], sess["L"],
                                        sess["diameter"], sess["Es"])
         IN  IF IsOk(c) THEN [shown EXCEPT !.curve = << c.value >>]
             ELSE Aborted(c.status, shown)
    ELSE [shown EXCEPT !.warning = TRUE]

\* tab5 is reached by the runs that nothing has ended before it
tab5_render(sess, shown) ==
    IF shown.error # "none" THEN shown
    ELSE [shown EXCEPT !.boq = tab5_boq(sess)]

\* the rest of a run from the checkbox of tab3 on, when "Compare Designs"
\* is not pressed
Run(show, sess, shown) == tab5_render(sess, tab3_curve(show, sess, shown))

\* a run in which no button is pressed renders only the session-driven parts
Rerun(sess) == Run(show_curve, sess, NothingShown)

SetDiameter(v) ==
    /\ v # diameter
    /\ diameter' = v
    /\ calc_failed' = FALSE
    /\ out' = Rerun(session)
    /\ UNCHANGED <<safety_factor, total_load, layers, Es, show_curve, compare_widgets, session, call>>

SetSafetyFactor(v) ==
    /\ v # safety_factor
    /\ safety_factor' = v
    /\ calc_failed' = FALSE
    /\ out' = Rerun(session)
    /\ UNCHANGED <<diameter, total_load, layers, Es, show_curve, compare_widgets, session, call>>

SetLoad(v) ==
    /\ v # total_load
    /\ total_load' = v
    /\ calc_failed' = FALSE
    /\ out' = Rerun(session)
    /\ UNCHANGED <<diameter, safety_factor, layers, Es, show_curve, compare_widgets, session, call>>

\* the layer widgets are keyed by index: a layer that is no longer rendered
\* loses its values, a new one starts from the widget defaults
SetLayerCount(n) ==
    /\ n # Len(layers)
    /\ layers' = [i \in 1..n |-> IF i <= Len(layers) THEN layers[i]
                                 ELSE Layer("Soft Clay", 10)]
    /\ calc_failed' = FALSE
    /\ out' = Rerun(session)
    /\ UNCHANGED <<diameter, safety_factor, total_load, Es, show_curve, compare_widgets, session, call>>

SetLayerType(i, t) ==
    /\ i \in 1..Len(layers)
    /\ t # layers[i].type
    /\ layers' = [layers EXCEPT ![i] = Layer(t, layers[i].thickness)]
    /\ calc_failed' = FALSE
    /\ out' = Rerun(session)
    /\ UNCHANGED <<diameter, safety_factor, total_load, Es, show_curve, compare_widgets, session, call>>

\* tab1: "Calculate Pile Capacity".  The session keys are written after the
\* whole computation; an exception leaves the session as it was.
ClickCalculate ==
    LET r == tab1_calculate(diameter, safety_factor, total_load, layers, cost_rate)
    IN  /\ IF IsOk(r)
           THEN /\ session' = ("piles" :> r.value.piles_needed
                               @@ "vol_per_pile" :> r.value.volume_per_pile
                               @@ "total_vol" :> r.value.total_volume
                               @@ "boq_ready" :> TRUE
                               @@ "calculated" :> r.value
                               @@ session)
                /\ calc_failed' = FALSE
                /\ out' = Run(show_curve, session',
                               [Clicked("calculate") EXCEPT !.calc = << r.value >>])
           ELSE /\ session' = session
                /\ calc_failed' = TRUE
                /\ out' = Aborted(r.status, Clicked("calculate"))
        /\ UNCHANGED <<widgets, compare_widgets, call>>

\* tab2: "Show Pile Layout + Group Efficiency"
ClickShowLayout ==
    LET r == tab2_layout(diameter, safety_factor, total_load, layers, spacing_default)
    IN  /\ out' = IF IsOk(r)
                  THEN Run(show_curve, session,
                           [Clicked("layout") EXCEPT !.layout = << r.value >>])
                  ELSE Aborted(r.status, Clicked("layout"))
        /\ UNCHANGED <<widgets, compare_widgets, session, calc_failed, call>>

\* "Estimate Settlement" storing only the keys the session does not hold
\* yet: st.session_state.setdefault(key, value)
ClickEstimateSettlement_setdefault ==
    LET Q == total_load
        L == SumSeq([i \in 1..Len(layers) |-> layers[i].thickness])
        sess == (session
                 @@ "Q" :> Q @@ "L" :> L @@ "Es" :> Es @@ "diameter" :> diameter)
        r == estimate_settlement(Q, L, diameter, Es)
    IN  /\ session' = sess
        /\ out' = IF IsOk(r)
                  THEN Run(show_curve, sess,
                           [Clicked("settlement") EXCEPT !.settlement = << r.value >>])
                  ELSE Aborted(r.status, Clicked("settlement"))
        /\ UNCHANGED <<widgets, compare_widgets, calc_failed, call>>

\* tab3: "Estimate Settlement".  The four keys are stored before the
\* settlement is computed.
ClickEstimateSettlement ==
    LET Q == total_load
        L == SumSeq([i \in 1..Len(layers) |-> layers[i].thickness])
        sess == ("Q" :> Q @@ "L" :> L @@ "Es" :> Es @@ "diameter" :> diameter
                 @@ session)
        r == estimate_settlement(Q, L, diameter, Es)
    IN  /\ session' = sess
        /\ out' = IF IsOk(r)
                  THEN Run(show_curve, sess,
                           [Clicked("settlement") EXCEPT !.settlement = << r.value >>])
                  ELSE Aborted(r.status, Clicked("settlement"))
        /\ UNCHANGED <<widgets, compare_widgets, calc_failed, call>>

Next ==
    \/ \E v \in DiameterChoices : SetDiameter(v)
    \/ \E v \in SafetyFactorChoices : SetSafetyFactor(v)
    \/ \E n \in LayerCounts : SetLayerCount(n)
    \/ \E i \in 1..MaxLayers, t \in SoilChoices : SetLayerType(i, t)
    \/ ClickCalculate
    \/ ClickShowLayout
    \/ ClickEstimateSettlement

Spec == Init /\ [][Next]_vars

----------------------------------------------------------------------------
(* The comparison tab.                                                     *)

SetCompareWidget(w, v) ==
    /\ w \in 1..6
    /\ <<d1, l1, sf1, d2, l2, sf2>>[w] # v
    /\ d1' = IF w = 1 THEN v ELSE d1
    /\ l1' = IF w = 2 THEN v ELSE l1
    /\ sf1' = IF w = 3 THEN v ELSE sf1
    /\ d2' = IF w = 4 THEN v ELSE d2
    /\ l2' = IF w = 5 THEN v ELSE l2
    /\ sf2' = IF w = 6 THEN v ELSE sf2
    /\ out' = Rerun(session)
    /\ UNCHANGED <<widgets, session, calc_failed, call>>

\* tab4: "Compare Designs", reached after the checkbox of tab3
ClickCompare ==
    LET r == tab4_compare(d1, l1, sf1, d2, l2, sf2, total_load)
        shown == tab3_curve(show_curve, session, Clicked("compare"))
    IN  /\ out' = IF shown.error # "none" THEN shown
                  ELSE IF IsOk(r)
                  THEN tab5_render(session, [shown EXCEPT !.compare = << r.value >>])
                  ELSE Aborted(r.status, shown)
        /\ UNCHANGED <<widgets, compare_widgets, session, calc_failed, call>>

NextCompare ==
    \/ \E v \in CompareDiametersA : SetCompareWidget(1, v)
    \/ \E v \in CompareDiametersB : SetCompareWidget(4, v)
    \/ \E v \in CompareLengthsA : SetCompareWidget(2, v)
    \/ \E v \in CompareLengthsB : SetCompareWidget(5, v)
    \/ \E v \in CompareSafetyFactors : SetCompareWidget(3, v) \/ SetCompareWidget(6, v)
    \/ \E v \in CompareLoads : SetLoad(v)
    \/ ClickCalculate
    \/ ClickCompare

SpecCompare == Init /\ [][NextCompare]_vars

----------------------------------------------------------------------------
(* The settlement tab.                                                     *)

SetEs(v) ==
    /\ v # Es
    /\ Es' = v
    /\ out' = Rerun(session)
    /\ UNCHANGED <<diameter, safety_factor, total_load, layers, show_curve,
                   compare_widgets, session, calc_failed, call>>

\* ticking or clearing the checkbox is a widget change like any other
ToggleCurve ==
    /\ show_curve' = ~show_curve
    /\ out' = Run(show_curve', session, NothingShown)
    /\ UNCHANGED <<diameter, safety_factor, total_load, layers, Es,
                   compare_widgets, session, calc_failed, call>>

NextSettlement ==
    \/ \E v \in DiameterChoices : SetDiameter(v)
    \/ \E v \in LoadChoices : SetLoad(v)
    \/ \E v \in EsChoices : SetEs(v)
    \/ \E n \in LayerCounts : SetLayerCount(n)
    \/ ToggleCurve
    \/ ClickEstimateSettlement

SpecSettlement == Init /\ [][NextSettlement]_vars

----------------------------------------------------------------------------
(* Direct calls of the engine functions on inputs from bounded sets.       *)

FnDiameters == {0, 9, 12, 20}
FnSafetyFactors == {0 - 5, 0, 3, 5}
FnSoils == {"Medium Clay", "Stiff Clay", "Loose Sand"}
FnThicknesses == {20, 40}
FnLoads == {1000, 3140}
FnLengths == {40, 60}
FnCapacityDens == {1, 3}

FnLayers == {Layer(t, h) : t \in FnSoils, h \in FnThicknesses}

\* the soil profiles of at most MaxLayers layers, the empty one included
FnProfiles == UNION {[1..n -> FnLayers] : n \in 0..MaxLayers}

\* the calls made: each starts with its arguments drawn from the sets above
FnCalls ==
    {[op |-> "suggest_layout", n |-> n, result |-> Pending] : n \in 1..MaxPiles}
    \cup
    {[op |-> "calculate_capacity", diameter |-> d, safety_factor |-> sf,
      layers |-> ls, result |-> Pending] :
        d \in FnDiameters, sf \in FnSafetyFactors, ls \in FnProfiles}
    \cup
    {[op |-> "piles_needed", load |-> load, cap_num |-> cap_num,
      cap_den |-> cap_den, result |-> Pending] :
        load \in 1..MaxLoad, cap_num \in (0 - MaxCapacity)..MaxCapacity,
        cap_den \in FnCapacityDens}
    \cup
    {[op |-> "calculate_group_efficiency", rows |-> rows, cols |-> cols,
      spacing |-> spacing, diameter |-> d, result |-> Pending] :
        rows \in 1..MaxGrid, cols \in 1..MaxGrid, spacing \in 1..MaxSpacing,
        d \in FnDiameters}
    \cup
    {[op |-> o, diameter |-> d, safety_factor |-> sf, load |-> load,
      layers |-> ls, result |-> Pending] :
        o \in {"tab1_calculate", "tab2_layout"},
        d \in FnDiameters, sf \in FnSafetyFactors, load \in FnLoads,
        ls \in FnProfiles \ {<< >>}}
    \cup
    {[op |-> "pile_design_summary", d |-> d, l |-> l, sf |-> sf, load |-> load,
      result |-> Pending] :
        d \in FnDiameters, l \in FnLengths, sf \in FnSafetyFactors,
        load \in FnLoads}

InitFn ==
    /\ diameter = 12
    /\ safety_factor = 5
    /\ total_load = 1000
    /\ layers = << Layer("Soft Clay", 10), Layer("Soft Clay", 10) >>
    /\ Es = 15
    /\ show_curve = FALSE
    /\ d1 = 12 /\ l1 = 40 /\ sf1 = 5
    /\ d2 = 9 /\ l2 = 50 /\ sf2 = 5
    /\ session = EmptySession
    /\ calc_failed = FALSE
    /\ out = NothingShown
    /\ call \in FnCalls

Return(op, r) ==
    /\ call.op = op
    /\ ~Returned(call)
    /\ call' = [call EXCEPT !.result = r]
    /\ UNCHANGED <<widgets, compare_widgets, session, calc_failed, out>>

Call_suggest_layout ==
    Return("suggest_layout", suggest_layout(call.n))

Call_calculate_capacity ==
    Return("calculate_capacity",
           calculate_capacity(call.diameter, call.safety_factor, call.layers))

Call_piles_needed ==
    Return("piles_needed", piles_needed(call.load, call.cap_num, call.cap_den))

Call_group_efficiency ==
    Return("calculate_group_efficiency",
           calculate_group_efficiency(call.rows, call.cols, call.spacing, call.diameter))

Call_tab1_calculate ==
    Return("tab1_calculate",
           tab1_calculate(call.diameter, call.safety_factor, call.load,
                          call.layers, cost_rate))

Call_tab2_layout ==
    Return("tab2_layout",
           tab2_layout(call.diameter, call.safety_factor, call.load,
                       call.layers, spacing_default))

Call_pile_design_summary ==
    Return("pile_design_summary",
           pile_design_summary(call.d, call.l, call.sf, 50, call.load, 120))

NextFn ==
    \/ Call_suggest_layout
    \/ Call_calculate_capacity
    \/ Call_piles_needed
    \/ Call_group_efficiency
    \/ Call_tab1_calculate
    \/ Call_tab2_layout
    \/ Call_pile_design_summary

SpecFn == InitFn /\ [][NextFn]_vars

----------------------------------------------------------------------------
(* Properties.                                                             *)

\* C1: for every positive pile count n, suggest_layout(n) returns positive
\* integers with rows = ceil(sqrt(n)), cols = ceil(n / rows) and
\* rows * cols >= n.
C1_LayoutHoldsAllPiles ==
    (call.op = "suggest_layout" /\ Returned(call) /\ call.n >= 1) =>
        /\ IsOk(call.result)
        /\ LET rows == call.result.value.rows
               cols == call.result.value.cols
           IN  /\ rows >= 1 /\ cols >= 1
               /\ rows * rows >= call.n /\ (rows - 1) * (rows - 1) < call.n
               /\ cols * rows >= call.n /\ (cols - 1) * rows < call.n

\* a non-square count was laid out: 7 piles on a 3 x 3 grid
C1_Witness ==
    /\ call.op = "suggest_layout" /\ call.n = 7
    /\ call.result = Ok([rows |-> 3, cols |-> 3])

\* C2: for every positive load and positive allowable capacity the pile
\* count is floor(load / allowable) + 1 and piles * allowable > load, also
\* when the quotient is an exact integer, in the design calculator, in the
\* layout tab and in the design comparison.
C2_PileCountIsFloorPlusOne ==
    /\ (call.op \in {"tab1_calculate", "tab2_layout"} /\ Returned(call)) =>
          LET cap == calculate_capacity(call.diameter, call.safety_factor, call.layers)
          IN  (call.load > 0 /\ IsOk(cap) /\ cap.value.allowable > 0) =>
                 /\ IsOk(call.result)
                 /\ call.result.value.capacity = cap.value.allowable
                 /\ call.result.value.piles_needed =
                        FloorDiv(100 * call.load, cap.value.allowable) + 1
                 /\ call.result.value.piles_needed * cap.value.allowable
                        > 100 * call.load
    /\ (call.op = "pile_design_summary" /\ Returned(call)) =>
          \* allowable = ultimate / (40000 * sf), ultimate in 1/80000 kN
          LET ultimate == 50 * 157 * call.d * (40 * call.l + 9 * call.d)
          IN  (call.load > 0 /\ call.sf > 0 /\ ultimate > 0) =>
                 /\ IsOk(call.result)
                 /\ call.result.value.piles =
                        FloorDiv(call.load * 40000 * call.sf, ultimate) + 1
                 /\ call.result.value.piles * ultimate
                        > call.load * 40000 * call.sf

\* the design calculator met an exact quotient: 3140 kN on piles of
\* 628.00 kN is 5 exactly and 6 piles are required
C2_Witness ==
    /\ call.op = "tab1_calculate" /\ Returned(call) /\ IsOk(call.result)
    /\ call.load = 3140
    /\ call.result.value.capacity = 62800
    /\ call.result.value.piles_needed = 6

\* C3: for a fixed positive load the pile count is non-increasing in the
\* allowable capacity: c1 <= c2 implies count(load, c1) >= count(load, c2).
C3_PileCountMonotone ==
    (call.op = "piles_needed" /\ Returned(call) /\ call.load > 0 /\ call.cap_num > 0) =>
        /\ IsOk(call.result)
        /\ \A n2 \in 1..MaxCapacity, den2 \in FnCapacityDens :
              (call.cap_num * den2 <= n2 * call.cap_den) =>
                  /\ IsOk(piles_needed(call.load, n2, den2))
                  /\ piles_needed(call.load, n2, den2).value <= call.result.value

\* a load of 12 on a capacity of 2/3 needs 19 piles, more than on any
\* larger capacity of the range
C3_Witness ==
    /\ call.op = "piles_needed" /\ Returned(call)
    /\ call.load = 12 /\ call.cap_num = 2 /\ call.cap_den = 3
    /\ call.result = Ok(19)
    /\ piles_needed(12, 8, 1) = Ok(2)

\* C4 (as claimed): the capacity calculation on an empty soil profile fails
\* with InvalidInput, never with an index error or a division by zero, and
\* returns no capacity.
C4_EmptyProfileIsInvalidInput ==
    (call.op = "calculate_capacity" /\ Returned(call) /\ call.layers = << >>) =>
        call.result.status = "InvalidInput"

\* C5 (as claimed): whenever the allowable capacity is <= 0, computing the
\* required pile count fails with InvalidInput; it never divides by zero
\* and never yields a zero or negative pile count.
C5_NonPositiveCapacityIsInvalidInput ==
    LET cap == calculate_capacity(diameter, safety_factor, layers)
    IN  (out.click \in {"calculate", "layout"} /\ IsOk(cap) /\ cap.value.allowable <= 0) =>
            /\ out.error = "InvalidInput"
            /\ out.calc = << >>
            /\ out.layout = << >>

\* C6 (as claimed): after a capacity calculation has failed for the present
\* inputs no downstream result is shown for them and no earlier capacity
\* value takes the place of the failed one.  Stated for the results that
\* are derived from the capacity: pile count, volume and cost, layout and
\* group efficiency, bill of quantities.
C6_NothingDownstreamOfFailedCapacity ==
    calc_failed =>
        /\ out.calc = << >>
        /\ out.layout = << >>
        /\ out.boq = << >>

\* C7: for a non-empty profile, positive diameter d and positive safety
\* factor sf, allowable = round((sum over all layers of cohesion_i * 3.14 *
\* d * thickness_i + cohesion_last * 9 * 3.14 * (d/2)^2) / sf, 2); d = 0.6,
\* sf = 2.5 and one layer {cohesion 50, thickness 10} give 427.67, and a
\* load of 1000 then needs 3 piles.
C7_AllowableCapacityFormula ==
    /\ (call.op = "calculate_capacity" /\ Returned(call) /\ call.layers # << >>
        /\ call.diameter > 0 /\ call.safety_factor > 0) =>
          LET ls == call.layers
              \* sum of cohesion * thickness over all layers, in kPa * 0.5 m
              ct == SumSeq([i \in 1..Len(ls) |-> ls[i].cohesion * ls[i].thickness])
              \* 80000 * (skin + end)
              ult == 157 * call.diameter
                         * (40 * ct + 9 * ls[Len(ls)].cohesion * call.diameter)
          IN  /\ IsOk(call.result)
              /\ call.result.value.allowable = Round(ult, 400 * call.safety_factor)
    /\ (call.op = "calculate_capacity" /\ Returned(call)
        /\ call.diameter = 12 /\ call.safety_factor = 5
        /\ call.layers = << Layer("Medium Clay", 20) >>) =>
          call.result.value.allowable = 42767
    /\ (call.op = "tab1_calculate" /\ Returned(call)
        /\ call.diameter = 12 /\ call.safety_factor = 5 /\ call.load = 1000
        /\ call.layers = << Layer("Medium Clay", 20) >>) =>
          /\ call.result.value.capacity = 42767
          /\ call.result.value.piles_needed = 3

\* clay over sand was computed, and the same two layers in the other order
\* carry a different capacity
C7_Witness ==
    /\ call.op = "calculate_capacity" /\ Returned(call) /\ IsOk(call.result)
    /\ call.diameter = 12 /\ call.safety_factor = 5
    /\ call.layers = << Layer("Medium Clay", 20), Layer("Loose Sand", 20) >>
    /\ call.result.value.allowable = 37680
    /\ calculate_capacity(12, 5, << Layer("Loose Sand", 20), Layer("Medium Clay", 20) >>)
           .value.allowable = 42767

\* C8: for positive rows, cols, spacing and diameter,
\* group_efficiency(rows, cols, spacing, diameter) <= rows * cols.
C8_EfficiencyAtMostPileCount ==
    (call.op = "calculate_group_efficiency" /\ Returned(call)
     /\ call.rows > 0 /\ call.cols > 0 /\ call.spacing > 0 /\ call.diameter > 0) =>
        /\ IsOk(call.result)
        /\ call.result.value <= 100 * call.rows * call.cols

\* a 2 x 2 group of 0.6 m piles at 2.5 m spacing counts for 2.82 piles
C8_Witness ==
    /\ call.op = "calculate_group_efficiency" /\ Returned(call)
    /\ call.rows = 2 /\ call.cols = 2 /\ call.spacing = 25 /\ call.diameter = 12
    /\ call.result = Ok(282)

\* the spacing ratio spacing / diameter of (s1, d1) is below that of (s2, d2)
RatioBelow(s1, dm1, s2, dm2) == s1 * dm2 < s2 * dm1

\* C9 (as claimed): for fixed rows and cols the returned (2-decimal
\* rounded) efficiency strictly decreases as the spacing ratio increases.
C9_EfficiencyStrictlyDecreasing ==
    (call.op = "calculate_group_efficiency" /\ Returned(call) /\ call.diameter > 0) =>
        \A s2 \in 1..MaxSpacing, dm2 \in FnDiameters \ {0} :
            RatioBelow(call.spacing, call.diameter, s2, dm2) =>
                calculate_group_efficiency(call.rows, call.cols, s2, dm2).value
                    < call.result.value

\* C9 (amended): for fixed rows and cols the returned (2-decimal rounded)
\* efficiency never increases as the spacing ratio increases.
C9_EfficiencyNonIncreasing ==
    (call.op = "calculate_group_efficiency" /\ Returned(call) /\ call.diameter > 0) =>
        /\ IsOk(call.result)
        /\ \A s2 \in 1..MaxSpacing, dm2 \in FnDiameters \ {0} :
              RatioBelow(call.spacing, call.diameter, s2, dm2) =>
                  calculate_group_efficiency(call.rows, call.cols, s2, dm2).value
                      <= call.result.value

\* one 0.6 m pile at 4.1 m spacing returns 0.59, and so does the larger
\* spacing of 4.2 m
C9_Witness ==
    /\ call.op = "calculate_group_efficiency" /\ Returned(call)
    /\ call.rows = 1 /\ call.cols = 1 /\ call.spacing = 41 /\ call.diameter = 12
    /\ call.result = Ok(59)
    /\ calculate_group_efficiency(1, 1, 42, 12) = Ok(59)

\* the comparison table of the present widget values with one side replaced
TableWithA(d, l, sf) == tab4_compare(d, l, sf, d2, l2, sf2, total_load)
TableWithB(d, l, sf) == tab4_compare(d1, l1, sf1, d, l, sf, total_load)

\* the table shown by the last run compares the present widget values:
\* whatever design stands on the other side, each side shows the same
\* metrics, and the two designs exchanged show the two columns exchanged
ComparisonSidesIndependent ==
    (out.click = "compare" /\ out.compare # << >>) =>
        /\ \A d \in CompareDiametersB, l \in CompareLengthsB, sf \in CompareSafetyFactors :
              IsOk(TableWithB(d, l, sf)) =>
                  TableWithB(d, l, sf).value.A = out.compare[1].A
        /\ \A d \in CompareDiametersA, l \in CompareLengthsA, sf \in CompareSafetyFactors :
              IsOk(TableWithA(d, l, sf)) =>
                  TableWithA(d, l, sf).value.B = out.compare[1].B
        /\ tab4_compare(d2, l2, sf2, d1, l1, sf1, total_load) =
               Ok([A |-> out.compare[1].B, B |-> out.compare[1].A])

\* C10: in a design comparison the metrics of side A depend only on A's
\* (diameter, length, safety factor) and the shared load, cohesion and cost
\* rate, and likewise for B; the sides taken in the other order give the
\* same pair of results; the comparison modifies no session state.
C10_ComparisonIndependentAndPure ==
    /\ []ComparisonSidesIndependent
    /\ [][out'.click = "compare" => session' = session]_vars

\* a comparison was shown after a design had been calculated and stored,
\* with design B moved away from its defaults
C10_Witness ==
    /\ out.click = "compare" /\ out.compare # << >>
    /\ "calculated" \in DOMAIN session
    /\ d2 = 8 /\ l2 = 40 /\ sf2 = 3
    /\ out.compare[1].A.piles # out.compare[1].B.piles

\* the four values "Estimate Settlement" stores, as far as the session
\* holds them
Snapshot(sess) ==
    [k \in {"Q", "L", "Es", "diameter"} \cap DOMAIN sess |-> sess[k]]

\* the values a click on "Estimate Settlement" would store now
PresentInputs ==
    ("Q" :> total_load
     @@ "L" :> SumSeq([i \in 1..Len(layers) |-> layers[i].thickness])
     @@ "Es" :> Es
     @@ "diameter" :> diameter)

\* C11: the load-settlement curve is exactly 5 points, at loads 0.2, 0.4,
\* 0.6, 0.8 and 1.0 times the reference load Q, in that order; the
\* settlement of each point is estimate_settlement(fraction * Q, L,
\* diameter, Es) computed on its own, so the last point is the settlement
\* reported for the reference load itself.
C11_CurveIsFivePointsOfEstimate ==
    out.curve # << >> =>
        LET c == out.curve[1]
            Q == session["Q"]
            L == session["L"]
        IN  /\ Len(c) = 5
            /\ \A i \in 1..5 :
                  /\ 5 * c[i].load = i * Q
                  /\ estimate_settlement(c[i].load, L, session["diameter"], session["Es"])
                         = Ok(c[i].settlement)
            /\ estimate_settlement(Q, L, session["diameter"], session["Es"])
                   = Ok(c[5].settlement)
            /\ (out.settlement # << >>) => (out.settlement[1] = c[5].settlement)

\* "Estimate Settlement" was clicked with the checkbox ticked: 2.36 mm are
\* reported for 1000 kN, and the curve ends in that point
C11_Witness ==
    /\ out.click = "settlement" /\ out.settlement = << 236 >>
    /\ out.curve = << << [load |-> 200, settlement |-> 47],
                         [load |-> 400, settlement |-> 94],
                         [load |-> 600, settlement |-> 142],
                         [load |-> 800, settlement |-> 189],
                         [load |-> 1000, settlement |-> 236] >> >>

\* C12: for every perfect square n = k^2 with k >= 1, suggest_layout(n)
\* returns rows = cols = k: an exactly square grid with no unused position.
C12_PerfectSquareIsSquareGrid ==
    (call.op = "suggest_layout" /\ Returned(call)) =>
        \A k \in 1..MaxPiles :
            (k * k = call.n) =>
                /\ call.result = Ok([rows |-> k, cols |-> k])
                /\ call.result.value.rows * call.result.value.cols = call.n

\* 36 piles were laid out on a 6 x 6 grid
C12_Witness ==
    /\ call.op = "suggest_layout" /\ call.n = 36
    /\ call.result = Ok([rows |-> 6, cols |-> 6])

\* C13: for every positive integer n the layout of suggest_layout(n) is
\* near-square and tight: cols <= rows <= cols + 1 and (cols - 1) * rows < n,
\* so the grid never has a whole unused column.
C13_LayoutNearSquareAndTight ==
    (call.op = "suggest_layout" /\ Returned(call) /\ call.n >= 1) =>
        /\ IsOk(call.result)
        /\ LET rows == call.result.value.rows
               cols == call.result.value.cols
           IN  /\ cols <= rows
               /\ rows <= cols + 1
               /\ (cols - 1) * rows < call.n

\* one pile past a square: 37 piles take 7 rows of 6 columns, and the last
\* column holds a single pile
C13_Witness ==
    /\ call.op = "suggest_layout" /\ call.n = 37
    /\ call.result = Ok([rows |-> 7, cols |-> 6])
    /\ (6 - 1) * 7 = 35

\* the design calculator on the single-layer profile of cohesion 50 that
\* the comparison assumes: one layer of "Medium Clay" as thick as the pile
\* is long
SingleLayerDesign(d, l, sf) ==
    tab1_calculate(d, sf, total_load, << Layer("Medium Clay", l) >>, cost_rate)

\* the metrics m shown for the design (d, l, sf) agree with each other and
\* with the design calculator
ConsistentWithDesignCalculator(m, d, l, sf) ==
    /\ m.piles = FloorDiv(100 * total_load, m.allowable) + 1
    /\ IsOk(SingleLayerDesign(d, l, sf))
    /\ SingleLayerDesign(d, l, sf).value.capacity = m.allowable
    /\ SingleLayerDesign(d, l, sf).value.piles_needed = m.piles

\* C14 (as claimed): in a design comparison the pile count reported for a
\* design is floor(load / reported allowable capacity) + 1, the reported
\* capacity being the 2-decimal rounded value; hence for a single-layer
\* profile of cohesion 50 and the same diameter, length, safety factor and
\* load the comparison and the design calculator report the same allowable
\* capacity and the same pile count.
C14_ComparisonMatchesDesignCalculator ==
    (out.click = "compare" /\ out.compare # << >> /\ total_load > 0) =>
        /\ (d1 > 0 /\ sf1 > 0) =>
              ConsistentWithDesignCalculator(out.compare[1].A, d1, l1, sf1)
        /\ (d2 > 0 /\ sf2 > 0) =>
              ConsistentWithDesignCalculator(out.compare[1].B, d2, l2, sf2)

\* the values stored by a capacity calculation belong together
StoredDesignConsistent ==
    ("boq_ready" \in DOMAIN session /\ session["boq_ready"]) =>
        /\ {"piles", "vol_per_pile", "total_vol", "calculated"} \subseteq DOMAIN session
        /\ LET calculated == session["calculated"]
           IN  /\ session["piles"] = calculated.piles_needed
               /\ session["piles"] >= 1
               /\ session["vol_per_pile"] = calculated.volume_per_pile
               /\ session["total_vol"] = session["vol_per_pile"] * session["piles"]
               /\ tab1_calculate(calculated.diameter, calculated.safety_factor,
                                 calculated.total_load, calculated.layers, cost_rate)
                      = Ok(calculated)

\* C15 (as claimed): after any sequence of button clicks and input changes,
\* whenever boq_ready is set the session also holds piles, vol_per_pile,
\* total_vol and the "calculated" record, all written by the same
\* successful capacity calculation: piles = calculated.piles_needed >= 1,
\* vol_per_pile = calculated.volume_per_pile and total_vol = vol_per_pile *
\* piles.  A calculation that fails part-way writes none of these keys.
C15_StoredDesignFromOneCalculation ==
    /\ []StoredDesignConsistent
    /\ [][(out'.click = "calculate" /\ out'.calc = << >>) => session' = session]_vars

\* the curve shown is the curve of the stored snapshot, the four values are
\* stored together, and without them the ticked checkbox shows the warning
CurveFromSnapshot ==
    /\ DOMAIN Snapshot(session) \in {{}, {"Q", "L", "Es", "diameter"}}
    /\ (out.curve # << >>) =>
          /\ DOMAIN Snapshot(session) # {}
          /\ ~out.warning
          /\ load_settlement_curve(session["Q"], session["L"],
                                   session["diameter"], session["Es"])
                 = Ok(out.curve[1])
    /\ (show_curve /\ DOMAIN Snapshot(session) = {} /\ out.error = "none") =>
          /\ out.warning
          /\ out.curve = << >>

\* only a click on "Estimate Settlement" stores a snapshot, and it stores
\* the four present values; every other run leaves the snapshot and the
\* curve drawn from it as they were
SnapshotStep ==
    /\ (out'.click = "settlement") => (Snapshot(session') = PresentInputs)
    /\ (out'.click # "settlement") => (Snapshot(session') = Snapshot(session))
    /\ (out'.click # "settlement" /\ out.curve # << >> /\ out'.curve # << >>) =>
          (out'.curve = out.curve)

\* C16: the load-settlement curve is never computed before "Estimate
\* Settlement" has been clicked at least once in the session (a warning is
\* shown instead); once computed it uses the snapshot (Q, L, Es, diameter)
\* stored by the most recent click: later changes to load, layers, modulus
\* or diameter do not change the curve until the button is clicked again,
\* and the four stored values always come from the same click.
C16_CurveUsesLastSnapshot ==
    /\ []CurveFromSnapshot
    /\ [][SnapshotStep]_vars

\* the curve is on display while load, layers, modulus and diameter have
\* all been changed since the click that stored its snapshot
C16_Witness ==
    /\ out.click = "none" /\ out.curve # << >>
    /\ \A k \in {"Q", "L", "Es", "diameter"} : session[k] # PresentInputs[k]
====
